---- MODULE Spec2Model ----
(***************************************************************************)
(* A model of the ExpenseTracker backend (expense-tracker-backend/server.js *)
(* and the earlier server versions kept beside it).  The state is the      *)
(* relational store (users, expenses, categories), the clock, the tokens   *)
(* clients hold, and the last HTTP exchange (request and response).  Each  *)
(* route is one action: authMiddleware, the single SQL statement and the   *)
(* response.                                                               *)
(***************************************************************************)
EXTENDS Integers, Sequences, FiniteSets, TLC

VARIABLES users, expenses, categories, nextExpenseId,
          createdAtNotNull, now, tokens, resp,
          requests, serverListening, poolState, processExited

vars == <<users, expenses, categories, nextExpenseId,
          createdAtNotNull, now, tokens, resp,
          requests, serverListening, poolState, processExited>>

\* The Node process: the requests it has received, whether server accepts
\* connections, whether pool.end() has been called, whether it has exited.
process == <<requests, serverListening, poolState, processExited>>

\* The relational store: the three tables and the expenses id sequence.
store == <<users, expenses, categories, nextExpenseId>>

-----------------------------------------------------------------------------
(* Bounds of the model *)

MaxUsers == 2
MaxExpenses == 2
MaxTokens == 2
MaxTicks == 3
MaxRequests == 4

-----------------------------------------------------------------------------
(* Values *)

\* JavaScript undefined / SQL NULL in a text column or a text parameter.
NullStr == "NULL"
\* JavaScript undefined / SQL NULL in a numeric or timestamp column.
NullInt == 0 - 1

UserIds == 1..MaxUsers
Usernames == {"alice", "bob"}
Emails == {"a@x.com", "b@x.com"}
Passwords == {"pw123", "hunter2"}
Amounts == {10, 25}
Descriptions == {"bus", NullStr}
CategoryNames == {"food", "transport"}
\* what the name column of categories can hold
StorableNames == CategoryNames \cup {""}

-----------------------------------------------------------------------------
(* Calendar: a timestamp is a number of seconds since 2024-01-01T00:00:00  *)
(* (one time zone throughout), a date is a number of days since 2024-01-01 *)

EpochYear == 2024
SecondsPerDay == 86400

IsLeap(y) == (y % 4 = 0 /\ y % 100 # 0) \/ y % 400 = 0

DaysInMonth(y, m) ==
    IF m = 2 THEN (IF IsLeap(y) THEN 29 ELSE 28)
    ELSE IF m \in {4, 6, 9, 11} THEN 30 ELSE 31

DaysInYear(y) == IF IsLeap(y) THEN 366 ELSE 365

RECURSIVE DaysBeforeMonth(_, _)
DaysBeforeMonth(y, m) ==
    IF m = 1 THEN 0 ELSE DaysBeforeMonth(y, m - 1) + DaysInMonth(y, m - 1)

RECURSIVE DaysBeforeYear(_)
DaysBeforeYear(y) ==
    IF y = EpochYear THEN 0 ELSE DaysBeforeYear(y - 1) + DaysInYear(y - 1)

\* The date literal 'y-m-d' of a query string, as PostgreSQL reads it.
MakeDate(y, m, d) == DaysBeforeYear(y) + DaysBeforeMonth(y, m) + (d - 1)

\* The timestamp literal 'y-m-d hh:mm:ss' of a request body.
MakeTimestamp(y, m, d, hh, mm, ss) ==
    MakeDate(y, m, d) * SecondsPerDay + hh * 3600 + mm * 60 + ss

\* created_at::date
CastDate(ts) == ts \div SecondsPerDay

\* a date parameter compared with a timestamp column: midnight of that date
DateToTimestamp(d) == d * SecondsPerDay

RECURSIVE YearFrom(_, _)
YearFrom(y, d) ==
    IF d < DaysInYear(y) THEN y ELSE YearFrom(y + 1, d - DaysInYear(y))

RECURSIVE DayOfYearFrom(_, _)
DayOfYearFrom(y, d) ==
    IF d < DaysInYear(y) THEN d ELSE DayOfYearFrom(y + 1, d - DaysInYear(y))

RECURSIVE MonthFrom(_, _, _)
MonthFrom(y, m, d) ==
    IF d < DaysInMonth(y, m) THEN m ELSE MonthFrom(y, m + 1, d - DaysInMonth(y, m))

RECURSIVE DayFrom(_, _, _)
DayFrom(y, m, d) ==
    IF d < DaysInMonth(y, m) THEN d + 1 ELSE DayFrom(y, m + 1, d - DaysInMonth(y, m))

\* EXTRACT(YEAR FROM created_at)
ExtractYear(ts) == YearFrom(EpochYear, CastDate(ts))

\* EXTRACT(MONTH FROM created_at)
ExtractMonth(ts) ==
    MonthFrom(ExtractYear(ts), 1, DayOfYearFrom(EpochYear, CastDate(ts)))

\* EXTRACT(DAY FROM created_at)
ExtractDay(ts) ==
    DayFrom(ExtractYear(ts), 1, DayOfYearFrom(EpochYear, CastDate(ts)))

-----------------------------------------------------------------------------
(* Helpers over finite sets *)

Max(S) == CHOOSE x \in S : \A y \in S : y <= x

\* Every enumeration of S in an order that Before allows: the rows an
\* ORDER BY may return (rows with equal keys come in any order).
Orderings(S, Before(_, _)) ==
    {s \in [1..Cardinality(S) -> S] :
        /\ \A i, j \in 1..Cardinality(S) : i # j => s[i] # s[j]
        /\ \A i, j \in 1..Cardinality(S) : i < j => Before(s[i], s[j])}

RECURSIVE SumAmount(_)
\* SUM(amount) over a set of expense rows
SumAmount(rows) ==
    IF rows = {} THEN 0
    ELSE LET r == CHOOSE x \in rows : TRUE
         IN  r.amount + SumAmount(rows \ {r})

-----------------------------------------------------------------------------
(* Tokens and passwords: bcryptjs and jsonwebtoken *)

\* expiresIn: "1h", in seconds
ExpiresIn == 3600

\* the clock advances in steps of half a token lifetime
TickStep == 1800

\* req.header("Authorization") when the header is absent
NoHeader == [userId |-> 0, iat |-> 0, exp |-> 0, sig |-> "absent"]

\* jwt.sign({ userId }, jwtSecret, { expiresIn: "1h" }) at time t
jwtSign(userId, t) ==
    [userId |-> userId, iat |-> t, exp |-> t + ExpiresIn, sig |-> "valid"]

\* jwt.verify that still accepts a token at the second it expires
jwtVerify_LateExpiry(token, t) == token.sig = "valid" /\ t <= token.exp

\* jwt.verify(token, jwtSecret) at time t: the signature is jwtSecret's and
\* the token has not expired (it expires once the clock reaches exp)
jwtVerify(token, t) == token.sig = "valid" /\ t < token.exp

\* a token signed with another secret, whatever its payload says
ForgedToken ==
    [userId |-> 1, iat |-> 0, exp |-> (MaxTicks + 2) * TickStep + ExpiresIn,
     sig |-> "bad"]

\* bcrypt.hash(password, salt)
bcryptHash(password) == <<"bcrypt", password>>

\* bcrypt.compare(password, password_hash)
bcryptCompare(password, hash) == hash = bcryptHash(password)

\* authMiddleware: next() with req.userId set, or the 401 response
authMiddleware(token) ==
    IF token.sig = "absent"
    THEN [next |-> FALSE, userId |-> 0, status |-> 401,
          error |-> "No token, authorization denied"]
    ELSE IF jwtVerify(token, now)
    THEN [next |-> TRUE, userId |-> token.userId, status |-> 0, error |-> ""]
    ELSE [next |-> FALSE, userId |-> 0, status |-> 401,
          error |-> "Token is not valid"]

\* the Authorization headers a client can send: none, a forged token, or a
\* token the server issued
Headers == {NoHeader, ForgedToken} \cup tokens

\* the client keeps the token of a response while its jar has room
Keep(token) ==
    IF Cardinality(tokens \cup {token}) <= MaxTokens
    THEN tokens \cup {token} ELSE tokens

-----------------------------------------------------------------------------
(* The exchange: the request as received and the response as sent *)

NoExchange ==
    [route |-> "none", header |-> NoHeader, params |-> <<>>, at |-> 0,
     userId |-> 0, status |-> 0, body |-> <<>>]

\* res.status(status).json(body), recorded with the request it answers; the
\* request was handled from start to finish with no other one in flight
Respond(route, header, params, userId, status, body) ==
    /\ resp' = [route |-> route, header |-> header, params |-> params,
                at |-> now, userId |-> userId, status |-> status, body |-> body]
    /\ UNCHANGED process

\* the 401 of authMiddleware: the route handler never runs
Reject(route, header, params) ==
    /\ Respond(route, header, params, 0, authMiddleware(header).status,
               [error |-> authMiddleware(header).error])
    /\ UNCHANGED <<users, expenses, categories, nextExpenseId,
                   createdAtNotNull, now, tokens>>

-----------------------------------------------------------------------------
(* The store's constraints *)

\* users.username and users.email are unique: the insert of a row that
\* repeats either raises 23505, and no row is stored
UsersInsertError(username, email) ==
    IF \E u \in users : u.username = username \/ u.email = email
    THEN "23505" ELSE ""

\* categories (name, user_id) is unique: the insert of a second row with
\* the same pair raises 23505, and no row is stored
CategoriesInsertError(name, userId) ==
    IF categories[<<name, userId>>] > 0 THEN "23505" ELSE ""

\* expenses.created_at may be declared NOT NULL (the schema is not part of
\* the sources): an explicit NULL then raises 23502
ExpensesNotNullError(created_at) ==
    IF createdAtNotNull /\ created_at = NullInt THEN "23502" ELSE ""

\* PostgreSQL prepares a statement only when it can infer the type of every
\* parameter $1..$n, n being the highest one the text references: one the
\* text never references has no type, and the statement fails with 42P18
PrepareError(referenced) ==
    IF \E i \in 1..Max(referenced) : i \notin referenced THEN "42P18" ELSE ""

-----------------------------------------------------------------------------
(* Auth routes *)

\* a catch block that does not recognise the unique-constraint code
RegisterErrorStatus_NoConflict(code) == 500

\* the catch block of POST /api/register
RegisterErrorStatus(code) == IF code = "23505" THEN 400 ELSE 500

RegisterErrorMessage(code) ==
    IF code = "23505" THEN "Username or email already exists"
    ELSE "Server error during registration"

\* POST /api/register
Register(username, email, password) ==
    LET params == [username |-> username, email |-> email, password |-> password]
        newUser == [id |-> Cardinality(users) + 1, username |-> username,
                    email |-> email]
        token == jwtSign(newUser.id, now)
    IN  IF UsersInsertError(username, email) # ""
        THEN /\ Respond("POST /api/register", NoHeader, params, 0,
                        RegisterErrorStatus(UsersInsertError(username, email)),
                        [error |-> RegisterErrorMessage(UsersInsertError(username, email))])
             /\ UNCHANGED <<users, expenses, categories, nextExpenseId,
                            createdAtNotNull, now, tokens>>
        ELSE /\ Cardinality(users) < MaxUsers
             /\ users' = users \cup
                    {[id |-> newUser.id, username |-> username, email |-> email,
                      password_hash |-> bcryptHash(password)]}
             /\ tokens' = Keep(token)
             /\ Respond("POST /api/register", NoHeader, params, 0, 201,
                        [token |-> token, user |-> newUser])
             /\ UNCHANGED <<expenses, categories, nextExpenseId,
                            createdAtNotNull, now>>

\* POST /api/login
Login(username, password) ==
    LET params == [username |-> username, password |-> password]
        rows == {u \in users : u.username = username}
    IN  IF rows = {}
        THEN /\ Respond("POST /api/login", NoHeader, params, 0, 400,
                        [error |-> "Invalid username or password"])
             /\ UNCHANGED <<users, expenses, categories, nextExpenseId,
                            createdAtNotNull, now, tokens>>
        ELSE \E user \in rows :
               IF ~bcryptCompare(password, user.password_hash)
               THEN /\ Respond("POST /api/login", NoHeader, params, 0, 400,
                               [error |-> "Invalid username or password"])
                    /\ UNCHANGED <<users, expenses, categories, nextExpenseId,
                                   createdAtNotNull, now, tokens>>
               ELSE /\ tokens' = Keep(jwtSign(user.id, now))
                    /\ Respond("POST /api/login", NoHeader, params, 0, 200,
                               [token |-> jwtSign(user.id, now),
                                user |-> [id |-> user.id, username |-> user.username]])
                    /\ UNCHANGED <<users, expenses, categories, nextExpenseId,
                                   createdAtNotNull, now>>

\* time passes
Tick ==
    /\ now + TickStep <= MaxTicks * TickStep
    /\ now' = now + TickStep
    /\ UNCHANGED <<users, expenses, categories, nextExpenseId,
                   createdAtNotNull, tokens, resp>>
    /\ UNCHANGED process

-----------------------------------------------------------------------------
(* SQL fragments of the expense and report routes *)

\* a WHERE clause that matches on the id alone
MatchIdAndUser_IdOnly(e, id, userId) == e.id = id

\* WHERE id = $n AND user_id = $m
MatchIdAndUser(e, id, userId) == e.id = id /\ e.user_id = userId

\* a query without the WHERE user_id clause, as in the first server version
OwnRows_AllUsers(rows, userId) == rows

\* WHERE user_id = $n
OwnRows(rows, userId) == {e \in rows : e.user_id = userId}

\* if (month && year): both query parameters are present
BothSupplied(month, year) == month # NullInt /\ year # NullInt

\* EXTRACT(MONTH FROM created_at) = $1 AND EXTRACT(YEAR FROM created_at) = $2
\* (NULL on either side selects nothing)
InMonth(e, month, year) ==
    /\ e.created_at # NullInt /\ month # NullInt /\ year # NullInt
    /\ ExtractMonth(e.created_at) = month
    /\ ExtractYear(e.created_at) = year

\* EXTRACT(YEAR FROM created_at) = $1
InYear(e, year) ==
    /\ e.created_at # NullInt /\ year # NullInt
    /\ ExtractYear(e.created_at) = year

\* created_at BETWEEN $1 AND $2: the dates are read as timestamps at midnight
InTimestampRange(e, startDate, endDate) ==
    /\ e.created_at # NullInt /\ startDate # NullInt /\ endDate # NullInt
    /\ DateToTimestamp(startDate) <= e.created_at
    /\ e.created_at <= DateToTimestamp(endDate)

\* the comparison without the cast to date
InDateRange_NoCast(e, startDate, endDate) ==
    /\ e.created_at # NullInt /\ startDate # NullInt /\ endDate # NullInt
    /\ DateToTimestamp(startDate) <= e.created_at
    /\ e.created_at <= DateToTimestamp(endDate)

\* created_at::date BETWEEN $1 AND $2
InDateRange(e, startDate, endDate) ==
    /\ e.created_at # NullInt /\ startDate # NullInt /\ endDate # NullInt
    /\ startDate <= CastDate(e.created_at)
    /\ CastDate(e.created_at) <= endDate

\* ORDER BY created_at DESC (NULLs sort first in descending order)
CreatedAtDesc(a, b) ==
    \/ a.created_at = NullInt
    \/ b.created_at # NullInt /\ a.created_at >= b.created_at

\* ORDER BY total_amount DESC
TotalDesc(a, b) == a.total_amount >= b.total_amount

\* ORDER BY day ASC
DayAsc(a, b) == a.day <= b.day

\* ORDER BY month ASC
MonthAsc(a, b) == a.month <= b.month

\* SELECT category, SUM(amount) AS total_amount ... GROUP BY category
GroupByCategory(rows) ==
    {[category |-> c, total_amount |-> SumAmount({e \in rows : e.category = c})] :
        c \in {e.category : e \in rows}}

\* SELECT created_at::date AS day, SUM(amount) AS total_amount ... GROUP BY day
GroupByDate(rows) ==
    {[day |-> d,
      total_amount |-> SumAmount({e \in rows : CastDate(e.created_at) = d})] :
        d \in {CastDate(e.created_at) : e \in rows}}

\* SELECT EXTRACT(DAY FROM created_at) AS day, SUM(amount) ... GROUP BY day
GroupByDayOfMonth(rows) ==
    {[day |-> d,
      total_amount |-> SumAmount({e \in rows : ExtractDay(e.created_at) = d})] :
        d \in {ExtractDay(e.created_at) : e \in rows}}

\* SELECT EXTRACT(MONTH FROM created_at) AS month, SUM(amount) ... GROUP BY month
GroupByMonth(rows) ==
    {[month |-> m,
      total_amount |-> SumAmount({e \in rows : ExtractMonth(e.created_at) = m})] :
        m \in {ExtractMonth(e.created_at) : e \in rows}}

\* SELECT id, amount, description, category, created_at
RangeColumns(e) ==
    [id |-> e.id, amount |-> e.amount, description |-> e.description,
     category |-> e.category, created_at |-> e.created_at]

-----------------------------------------------------------------------------
(* What each read route answers, as a function of the expenses table, the *)
(* verified user id and the query string: the set of responses the single *)
(* statement allows (rows with equal sort keys may come in either order)  *)

Failure(message) == {[status |-> 500, body |-> [error |-> message]]}

Success(bodies) == {[status |-> 200, body |-> b] : b \in bodies}

\* GET /expenses
GetExpensesOutcomes(rows, userId, month, year) ==
    LET referenced == IF BothSupplied(month, year) THEN {1, 2, 3} ELSE {3}
        selected == IF BothSupplied(month, year)
                    THEN {e \in OwnRows(rows, userId) : InMonth(e, month, year)}
                    ELSE OwnRows(rows, userId)
    IN  IF PrepareError(referenced) # ""
        THEN Failure("Failed to retrieve expenses")
        ELSE Success(Orderings(selected, CreatedAtDesc))

\* GET /reports/category-summary
CategorySummaryOutcomes(rows, userId, month, year) ==
    LET referenced == IF BothSupplied(month, year) THEN {1, 2, 3} ELSE {3}
        selected == IF BothSupplied(month, year)
                    THEN {e \in OwnRows(rows, userId) : InMonth(e, month, year)}
                    ELSE OwnRows(rows, userId)
    IN  IF PrepareError(referenced) # ""
        THEN Failure("Failed to retrieve report data")
        ELSE Success(Orderings(GroupByCategory(selected), TotalDesc))

\* GET /reports/monthly-summary
MonthlySummaryOutcomes(rows, userId, month, year) ==
    Success(Orderings(
        GroupByDayOfMonth({e \in OwnRows(rows, userId) : InMonth(e, month, year)}),
        DayAsc))

\* GET /reports/weekly-category-summary
WeeklyCategorySummaryOutcomes(rows, userId, startDate, endDate) ==
    Success(Orderings(
        GroupByCategory({e \in OwnRows(rows, userId) :
                            InTimestampRange(e, startDate, endDate)}),
        TotalDesc))

\* GET /reports/yearly-category-summary
YearlyCategorySummaryOutcomes(rows, userId, year) ==
    Success(Orderings(
        GroupByCategory({e \in OwnRows(rows, userId) : InYear(e, year)}),
        TotalDesc))

\* GET /reports/yearly-summary
YearlySummaryOutcomes(rows, userId, year) ==
    Success(Orderings(
        GroupByMonth({e \in OwnRows(rows, userId) : InYear(e, year)}),
        MonthAsc))

\* GET /reports/weekly-summary
WeeklySummaryOutcomes(rows, userId, startDate, endDate) ==
    Success(Orderings(
        GroupByDate({e \in OwnRows(rows, userId) :
                        InTimestampRange(e, startDate, endDate)}),
        DayAsc))

\* GET /expenses/range
ExpensesRangeOutcomes(rows, userId, startDate, endDate) ==
    Success(Orderings(
        {RangeColumns(e) : e \in {x \in OwnRows(rows, userId) :
                                     InDateRange(x, startDate, endDate)}},
        CreatedAtDesc))

\* GET /reports/range-category-summary
RangeCategorySummaryOutcomes(rows, userId, startDate, endDate) ==
    Success(Orderings(
        GroupByCategory({e \in OwnRows(rows, userId) :
                            InDateRange(e, startDate, endDate)}),
        TotalDesc))

\* GET /reports/range-daily-summary
RangeDailySummaryOutcomes(rows, userId, startDate, endDate) ==
    Success(Orderings(
        GroupByDate({e \in OwnRows(rows, userId) :
                        InDateRange(e, startDate, endDate)}),
        DayAsc))

\* SELECT name FROM categories WHERE user_id = $1 ORDER BY name ASC, as the
\* set of names (one per row) the caller owns
OwnCategoryNames(cats, userId) ==
    {n \in StorableNames : cats[<<n, userId>>] > 0}

-----------------------------------------------------------------------------
(* Expense routes *)

\* POST /expenses
PostExpenses(h, amount, description, category, created_at) ==
    LET auth == authMiddleware(h)
        params == [amount |-> amount, description |-> description,
                   category |-> category, created_at |-> created_at]
        row == [id |-> nextExpenseId, amount |-> amount,
                description |-> description, category |-> category,
                created_at |-> created_at, user_id |-> auth.userId]
    IN  IF ~auth.next THEN Reject("POST /expenses", h, params)
        ELSE IF ExpensesNotNullError(created_at) # ""
        THEN /\ Respond("POST /expenses", h, params, auth.userId, 500,
                        [error |-> "Failed to add expense"])
             /\ UNCHANGED <<users, expenses, categories, nextExpenseId,
                            createdAtNotNull, now, tokens>>
        ELSE /\ nextExpenseId <= MaxExpenses
             /\ expenses' = expenses \cup {row}
             /\ nextExpenseId' = nextExpenseId + 1
             /\ Respond("POST /expenses", h, params, auth.userId, 201, row)
             /\ UNCHANGED <<users, categories, createdAtNotNull, now, tokens>>

\* GET /expenses
GetExpenses(h, month, year) ==
    LET auth == authMiddleware(h)
        params == [month |-> month, year |-> year]
    IN  IF ~auth.next THEN Reject("GET /expenses", h, params)
        ELSE /\ \E o \in GetExpensesOutcomes(expenses, auth.userId, month, year) :
                    Respond("GET /expenses", h, params, auth.userId, o.status, o.body)
             /\ UNCHANGED <<users, expenses, categories, nextExpenseId,
                   createdAtNotNull, now, tokens>>

\* GET /reports/category-summary
CategorySummary(h, month, year) ==
    LET auth == authMiddleware(h)
        params == [month |-> month, year |-> year]
    IN  IF ~auth.next THEN Reject("GET /reports/category-summary", h, params)
        ELSE /\ \E o \in CategorySummaryOutcomes(expenses, auth.userId, month, year) :
                    Respond("GET /reports/category-summary", h, params, auth.userId, o.status, o.body)
             /\ UNCHANGED <<users, expenses, categories, nextExpenseId,
                   createdAtNotNull, now, tokens>>

\* GET /reports/monthly-summary
MonthlySummary(h, month, year) ==
    LET auth == authMiddleware(h)
        params == [month |-> month, year |-> year]
    IN  IF ~auth.next THEN Reject("GET /reports/monthly-summary", h, params)
        ELSE /\ \E o \in MonthlySummaryOutcomes(expenses, auth.userId, month, year) :
                    Respond("GET /reports/monthly-summary", h, params, auth.userId, o.status, o.body)
             /\ UNCHANGED <<users, expenses, categories, nextExpenseId,
                   createdAtNotNull, now, tokens>>

\* GET /reports/weekly-category-summary
WeeklyCategorySummary(h, startDate, endDate) ==
    LET auth == authMiddleware(h)
        params == [startDate |-> startDate, endDate |-> endDate]
    IN  IF ~auth.next THEN Reject("GET /reports/weekly-category-summary", h, params)
        ELSE /\ \E o \in WeeklyCategorySummaryOutcomes(expenses, auth.userId, startDate, endDate) :
                    Respond("GET /reports/weekly-category-summary", h, params, auth.userId, o.status, o.body)
             /\ UNCHANGED <<users, expenses, categories, nextExpenseId,
                   createdAtNotNull, now, tokens>>

\* GET /reports/yearly-category-summary
YearlyCategorySummary(h, year) ==
    LET auth == authMiddleware(h)
        params == [year |-> year]
    IN  IF ~auth.next THEN Reject("GET /reports/yearly-category-summary", h, params)
        ELSE /\ \E o \in YearlyCategorySummaryOutcomes(expenses, auth.userId, year) :
                    Respond("GET /reports/yearly-category-summary", h, params, auth.userId, o.status, o.body)
             /\ UNCHANGED <<users, expenses, categories, nextExpenseId,
                   createdAtNotNull, now, tokens>>

\* GET /reports/yearly-summary
YearlySummary(h, year) ==
    LET auth == authMiddleware(h)
        params == [year |-> year]
    IN  IF ~auth.next THEN Reject("GET /reports/yearly-summary", h, params)
        ELSE /\ \E o \in YearlySummaryOutcomes(expenses, auth.userId, year) :
                    Respond("GET /reports/yearly-summary", h, params, auth.userId, o.status, o.body)
             /\ UNCHANGED <<users, expenses, categories, nextExpenseId,
                   createdAtNotNull, now, tokens>>

\* GET /reports/weekly-summary
WeeklySummary(h, startDate, endDate) ==
    LET auth == authMiddleware(h)
        params == [startDate |-> startDate, endDate |-> endDate]
    IN  IF ~auth.next THEN Reject("GET /reports/weekly-summary", h, params)
        ELSE /\ \E o \in WeeklySummaryOutcomes(expenses, auth.userId, startDate, endDate) :
                    Respond("GET /reports/weekly-summary", h, params, auth.userId, o.status, o.body)
             /\ UNCHANGED <<users, expenses, categories, nextExpenseId,
                   createdAtNotNull, now, tokens>>

\* a SET clause that keeps the stored value of a field the body lacks
SetClause_KeepAbsent(e, amount, description, category, created_at) ==
    [e EXCEPT !.amount = amount,
              !.description = IF description = NullStr THEN @ ELSE description,
              !.category = category,
              !.created_at = IF created_at = NullInt THEN @ ELSE created_at]

\* SET amount = $1, description = $2, category = $3, created_at = $4
SetClause(e, amount, description, category, created_at) ==
    [e EXCEPT !.amount = amount, !.description = description,
              !.category = category, !.created_at = created_at]

\* PUT /expenses/:id
PutExpense(h, id, amount, description, category, created_at) ==
    LET auth == authMiddleware(h)
        params == [id |-> id, amount |-> amount, description |-> description,
                   category |-> category, created_at |-> created_at]
        matched == {e \in expenses : MatchIdAndUser(e, id, auth.userId)}
        updated(e) == SetClause(e, amount, description, category, created_at)
    IN  IF ~auth.next THEN Reject("PUT /expenses/:id", h, params)
        ELSE IF matched # {} /\ ExpensesNotNullError(created_at) # ""
        THEN /\ Respond("PUT /expenses/:id", h, params, auth.userId, 500,
                        [error |-> "Failed to update expense"])
             /\ UNCHANGED <<users, expenses, categories, nextExpenseId,
                            createdAtNotNull, now, tokens>>
        ELSE IF matched = {}
        THEN /\ Respond("PUT /expenses/:id", h, params, auth.userId, 404,
                        [error |-> "Expense not found or you do not have permission to edit it."])
             /\ UNCHANGED <<users, expenses, categories, nextExpenseId,
                            createdAtNotNull, now, tokens>>
        ELSE /\ expenses' = (expenses \ matched) \cup {updated(e) : e \in matched}
             /\ \E e \in matched :
                    Respond("PUT /expenses/:id", h, params, auth.userId, 200, updated(e))
             /\ UNCHANGED <<users, categories, nextExpenseId, createdAtNotNull,
                            now, tokens>>

\* DELETE /expenses/:id
DeleteExpense(h, id) ==
    LET auth == authMiddleware(h)
        params == [id |-> id]
        matched == {e \in expenses : MatchIdAndUser(e, id, auth.userId)}
    IN  IF ~auth.next THEN Reject("DELETE /expenses/:id", h, params)
        ELSE IF matched = {}
        THEN /\ Respond("DELETE /expenses/:id", h, params, auth.userId, 404,
                        [error |-> "Expense not found or not authorized"])
             /\ UNCHANGED <<users, expenses, categories, nextExpenseId,
                            createdAtNotNull, now, tokens>>
        ELSE /\ expenses' = expenses \ matched
             /\ Respond("DELETE /expenses/:id", h, params, auth.userId, 200,
                        [message |-> "Expense deleted successfully"])
             /\ UNCHANGED <<users, categories, nextExpenseId, createdAtNotNull,
                            now, tokens>>

\* GET /expenses/range
ExpensesRange(h, startDate, endDate) ==
    LET auth == authMiddleware(h)
        params == [startDate |-> startDate, endDate |-> endDate]
    IN  IF ~auth.next THEN Reject("GET /expenses/range", h, params)
        ELSE /\ \E o \in ExpensesRangeOutcomes(expenses, auth.userId, startDate, endDate) :
                    Respond("GET /expenses/range", h, params, auth.userId, o.status, o.body)
             /\ UNCHANGED <<users, expenses, categories, nextExpenseId,
                   createdAtNotNull, now, tokens>>

\* GET /reports/range-category-summary
RangeCategorySummary(h, startDate, endDate) ==
    LET auth == authMiddleware(h)
        params == [startDate |-> startDate, endDate |-> endDate]
    IN  IF ~auth.next THEN Reject("GET /reports/range-category-summary", h, params)
        ELSE /\ \E o \in RangeCategorySummaryOutcomes(expenses, auth.userId, startDate, endDate) :
                    Respond("GET /reports/range-category-summary", h, params, auth.userId, o.status, o.body)
             /\ UNCHANGED <<users, expenses, categories, nextExpenseId,
                   createdAtNotNull, now, tokens>>

\* GET /reports/range-daily-summary
RangeDailySummary(h, startDate, endDate) ==
    LET auth == authMiddleware(h)
        params == [startDate |-> startDate, endDate |-> endDate]
    IN  IF ~auth.next THEN Reject("GET /reports/range-daily-summary", h, params)
        ELSE /\ \E o \in RangeDailySummaryOutcomes(expenses, auth.userId, startDate, endDate) :
                    Respond("GET /reports/range-daily-summary", h, params, auth.userId, o.status, o.body)
             /\ UNCHANGED <<users, expenses, categories, nextExpenseId,
                   createdAtNotNull, now, tokens>>

-----------------------------------------------------------------------------
(* Category routes *)

\* the names of StorableNames in ascending order (ORDER BY name ASC)
CategoryOrder == <<"", "food", "transport">>

RECURSIVE Repeat(_, _)
Repeat(x, n) == IF n = 0 THEN <<>> ELSE <<x>> \o Repeat(x, n - 1)

RECURSIVE NamesFrom(_, _, _)
\* result.rows.map((row) => row.name) of
\* SELECT name FROM categories WHERE user_id = $1 ORDER BY name ASC
NamesFrom(cats, userId, i) ==
    IF i > Len(CategoryOrder) THEN <<>>
    ELSE Repeat(CategoryOrder[i], cats[<<CategoryOrder[i], userId>>])
            \o NamesFrom(cats, userId, i + 1)

\* if (!name): the name is absent or the empty string
NameMissing(name) == name = NullStr \/ name = ""

\* a catch block that answers a duplicate the way POST /api/register does
PostCategoriesErrorStatus_AsRegister(code) == IF code = "23505" THEN 400 ELSE 500

\* the catch block of POST /categories
PostCategoriesErrorStatus(code) == IF code = "23505" THEN 409 ELSE 500

PostCategoriesErrorMessage(code) ==
    IF code = "23505" THEN "Category already exists" ELSE "Failed to add category"

RECURSIVE RowsNamed(_, _)
\* the number of rows called name that the users of U own
RowsNamed(name, U) ==
    IF U = {} THEN 0
    ELSE LET u == CHOOSE x \in U : TRUE
         IN  categories[<<name, u>>] + RowsNamed(name, U \ {u})

\* rowCount of a DELETE that matches on the name alone
DeletedCategoryRows_AnyOwner(name, userId) ==
    IF name \in StorableNames THEN RowsNamed(name, UserIds) ELSE 0

\* result.rowCount of DELETE FROM categories WHERE name = $1 AND user_id = $2
DeletedCategoryRows(name, userId) ==
    IF name \in StorableNames THEN categories[<<name, userId>>] ELSE 0

\* GET /categories
GetCategories(h) ==
    LET auth == authMiddleware(h)
    IN  IF ~auth.next THEN Reject("GET /categories", h, <<>>)
        ELSE /\ Respond("GET /categories", h, <<>>, auth.userId, 200,
                        NamesFrom(categories, auth.userId, 1))
             /\ UNCHANGED <<users, expenses, categories, nextExpenseId,
                            createdAtNotNull, now, tokens>>

\* POST /categories
PostCategories(h, name) ==
    LET auth == authMiddleware(h)
        params == [name |-> name]
    IN  IF ~auth.next THEN Reject("POST /categories", h, params)
        ELSE IF NameMissing(name)
        THEN /\ Respond("POST /categories", h, params, auth.userId, 400,
                        [error |-> "Category name is required"])
             /\ UNCHANGED <<users, expenses, categories, nextExpenseId,
                            createdAtNotNull, now, tokens>>
        ELSE IF CategoriesInsertError(name, auth.userId) # ""
        THEN /\ Respond("POST /categories", h, params, auth.userId,
                        PostCategoriesErrorStatus(CategoriesInsertError(name, auth.userId)),
                        [error |-> PostCategoriesErrorMessage(CategoriesInsertError(name, auth.userId))])
             /\ UNCHANGED <<users, expenses, categories, nextExpenseId,
                            createdAtNotNull, now, tokens>>
        ELSE /\ categories' = [categories EXCEPT ![<<name, auth.userId>>] = @ + 1]
             /\ Respond("POST /categories", h, params, auth.userId, 201,
                        [name |-> name])
             /\ UNCHANGED <<users, expenses, nextExpenseId, createdAtNotNull,
                            now, tokens>>

\* DELETE /categories
DeleteCategories(h, name) ==
    LET auth == authMiddleware(h)
        params == [name |-> name]
    IN  IF ~auth.next THEN Reject("DELETE /categories", h, params)
        ELSE IF NameMissing(name)
        THEN /\ Respond("DELETE /categories", h, params, auth.userId, 400,
                        [error |-> "Category name is required"])
             /\ UNCHANGED <<users, expenses, categories, nextExpenseId,
                            createdAtNotNull, now, tokens>>
        ELSE IF DeletedCategoryRows(name, auth.userId) = 0
        THEN /\ Respond("DELETE /categories", h, params, auth.userId, 404,
                        [error |-> "Category not found or you do not have permission to delete it."])
             /\ UNCHANGED <<users, expenses, categories, nextExpenseId,
                            createdAtNotNull, now, tokens>>
        ELSE /\ categories' = [categories EXCEPT ![<<name, auth.userId>>] = 0]
             /\ Respond("DELETE /categories", h, params, auth.userId, 200,
                        [message |-> "Category deleted successfully"])
             /\ UNCHANGED <<users, expenses, nextExpenseId, createdAtNotNull,
                            now, tokens>>

-----------------------------------------------------------------------------
(* The system *)

\* no request received yet
NoRequest ==
    [route |-> "none", header |-> NoHeader, params |-> <<>>, userId |-> 0,
     pc |-> "idle", queried |-> FALSE, status |-> 0]

\* app.listen(port) has returned and the pool is open
InitProcess ==
    /\ requests = [rid \in 1..MaxRequests |-> NoRequest]
    /\ serverListening = TRUE
    /\ poolState = "open"
    /\ processExited = FALSE

Init ==
    /\ users = {}
    /\ expenses = {}
    /\ categories = [p \in StorableNames \X UserIds |-> 0]
    /\ nextExpenseId = 1
    /\ createdAtNotNull \in BOOLEAN
    /\ now = 0
    /\ tokens = {}
    /\ resp = NoExchange
    /\ InitProcess

-----------------------------------------------------------------------------
(* The requests clients send *)

March1 == MakeTimestamp(2024, 3, 1, 0, 0, 0)
March31Morning == MakeTimestamp(2024, 3, 31, 8, 30, 0)
March31Night == MakeTimestamp(2024, 3, 31, 23, 59, 59)
April1 == MakeTimestamp(2024, 4, 1, 0, 0, 0)
March2025 == MakeTimestamp(2025, 3, 15, 12, 0, 0)

\* created_at of a request body; NullInt when the body has none
CreatedAts == {March1, March31Morning, March31Night, April1, March2025, NullInt}

\* startDate and endDate of a query string; NullInt when absent
QueryDates == {MakeDate(2024, 3, 1), MakeDate(2024, 3, 31), MakeDate(2024, 4, 1),
               NullInt}

\* month and year of a query string; NullInt when absent
QueryMonths == {3, 4, NullInt}
QueryYears == {2024, 2025, NullInt}

ExpenseIds == 1..MaxExpenses

\* name of a request body: a name, the empty string, or none
NameInputs == CategoryNames \cup {"", NullStr}

AuthRequest ==
    \/ \E username \in Usernames, email \in Emails, password \in Passwords :
            Register(username, email, password)
    \/ \E username \in Usernames, password \in Passwords :
            Login(username, password)

ExpenseWrite ==
    \/ \E h \in Headers, amount \in Amounts, description \in Descriptions,
          category \in CategoryNames, created_at \in CreatedAts :
            PostExpenses(h, amount, description, category, created_at)
    \/ \E h \in Headers, id \in ExpenseIds, amount \in Amounts,
          description \in Descriptions, category \in CategoryNames,
          created_at \in CreatedAts :
            PutExpense(h, id, amount, description, category, created_at)
    \/ \E h \in Headers, id \in ExpenseIds : DeleteExpense(h, id)

ExpenseRead ==
    \/ \E h \in Headers, month \in QueryMonths, year \in QueryYears :
            GetExpenses(h, month, year)
    \/ \E h \in Headers, startDate \in QueryDates, endDate \in QueryDates :
            ExpensesRange(h, startDate, endDate)

Report ==
    \/ \E h \in Headers, month \in QueryMonths, year \in QueryYears :
            CategorySummary(h, month, year)
    \/ \E h \in Headers, month \in QueryMonths, year \in QueryYears :
            MonthlySummary(h, month, year)
    \/ \E h \in Headers, startDate \in QueryDates, endDate \in QueryDates :
            WeeklyCategorySummary(h, startDate, endDate)
    \/ \E h \in Headers, year \in QueryYears : YearlyCategorySummary(h, year)
    \/ \E h \in Headers, year \in QueryYears : YearlySummary(h, year)
    \/ \E h \in Headers, startDate \in QueryDates, endDate \in QueryDates :
            WeeklySummary(h, startDate, endDate)
    \/ \E h \in Headers, startDate \in QueryDates, endDate \in QueryDates :
            RangeCategorySummary(h, startDate, endDate)
    \/ \E h \in Headers, startDate \in QueryDates, endDate \in QueryDates :
            RangeDailySummary(h, startDate, endDate)

CategoryRequest ==
    \/ \E h \in Headers : GetCategories(h)
    \/ \E h \in Headers, name \in NameInputs : PostCategories(h, name)
    \/ \E h \in Headers, name \in NameInputs : DeleteCategories(h, name)

Next ==
    \/ AuthRequest
    \/ ExpenseWrite
    \/ ExpenseRead
    \/ Report
    \/ CategoryRequest
    \/ Tick

Spec == Init /\ [][Next]_vars

-----------------------------------------------------------------------------
(* Registration, login and the guard, with the clock running *)

NextAuth ==
    \/ \E username \in Usernames, email \in Emails, password \in Passwords :
            Register(username, email, password)
    \/ \E username \in Usernames, password \in Passwords :
            Login(username, password)
    \/ \E h \in Headers : GetCategories(h)
    \/ Tick

SpecAuth == Init /\ [][NextAuth]_vars

\* the routes registered with authMiddleware
GuardedRoutes ==
    {"POST /expenses", "GET /expenses", "GET /reports/category-summary",
     "GET /reports/monthly-summary", "GET /reports/weekly-category-summary",
     "GET /reports/yearly-category-summary", "GET /reports/yearly-summary",
     "GET /reports/weekly-summary", "PUT /expenses/:id", "DELETE /expenses/:id",
     "GET /expenses/range", "GET /reports/range-category-summary",
     "GET /reports/range-daily-summary", "GET /categories", "POST /categories",
     "DELETE /categories"}

\* C3: Register with a username or an email that a stored user already has
\* is answered 400 with no token, and the users table (and the tokens in
\* circulation) are as before.
C3_DuplicateRegisterRejected ==
    [][\A username \in Usernames, email \in Emails, password \in Passwords :
          (/\ Register(username, email, password)
           /\ \E u \in users : u.username = username \/ u.email = email)
          => /\ resp'.status = 400
             /\ "token" \notin DOMAIN resp'.body
             /\ users' = users
             /\ tokens' = tokens]_vars

\* C3 happens: a registration that repeats only the email of a stored user
\* (under a new username) has been refused.
C3_Witness ==
    /\ resp.route = "POST /api/register"
    /\ resp.status = 400
    /\ \E u \in users : u.email = resp.params.email
    /\ \A u \in users : u.username # resp.params.username

\* C10: a token the server issued at time t for user u passes the guard, as
\* u, on every request before t + 3600 s, and is answered 401 on every
\* request from t + 3600 s on, whatever was done in between; Login and
\* Register issue the token for the user they answer with, stamped now.
C10_TokenAcceptedUntilExpiry ==
    /\ (resp.route \in GuardedRoutes /\ resp.header.sig = "valid")
        => /\ resp.at < resp.header.iat + 3600
                => resp.status # 401 /\ resp.userId = resp.header.userId
           /\ resp.at >= resp.header.iat + 3600
                => resp.status = 401 /\ resp.userId = 0
    /\ (resp.route \in {"POST /api/login", "POST /api/register"}
            /\ resp.status \in {200, 201})
        => /\ resp.body.token.iat = resp.at
           /\ resp.body.token.sig = "valid"
           /\ resp.body.token.userId = resp.body.user.id
           /\ \E u \in users : /\ u.id = resp.body.user.id
                               /\ u.username = resp.params.username
    /\ \A t \in tokens : \E u \in users : u.id = t.userId

\* C10 happens: a token issued at time 0 was accepted when the clock had
\* advanced (1800 s), and a token is refused at the very second it expires.
C10_Witness ==
    /\ resp.route = "GET /categories"
    /\ resp.header.sig = "valid"
    /\ resp.at = resp.header.iat + 3600
    /\ resp.status = 401
    /\ \E t \in tokens : now < t.exp /\ t.iat < now

-----------------------------------------------------------------------------
(* Two registered users, each holding the token of the registration *)

Alice == [id |-> 1, username |-> "alice", email |-> "a@x.com",
          password_hash |-> bcryptHash("pw123")]

Bob == [id |-> 2, username |-> "bob", email |-> "b@x.com",
        password_hash |-> bcryptHash("hunter2")]

\* the state after Register("alice", ...) and Register("bob", ...) at time 0
InitRegistered ==
    /\ users = {Alice, Bob}
    /\ expenses = {}
    /\ categories = [p \in StorableNames \X UserIds |-> 0]
    /\ nextExpenseId = 1
    /\ createdAtNotNull \in BOOLEAN
    /\ now = 0
    /\ tokens = {jwtSign(Alice.id, 0), jwtSign(Bob.id, 0)}
    /\ resp = [route |-> "POST /api/register", header |-> NoHeader,
               params |-> [username |-> "bob", email |-> "b@x.com",
                           password |-> "hunter2"],
               at |-> 0, userId |-> 0, status |-> 201,
               body |-> [token |-> jwtSign(Bob.id, 0),
                         user |-> [id |-> Bob.id, username |-> "bob",
                                   email |-> "b@x.com"]]]
    /\ InitProcess

\* the same with created_at nullable, for the routes that only read it
InitReads == InitRegistered /\ ~createdAtNotNull

-----------------------------------------------------------------------------
(* The category routes *)

NextCategories ==
    \/ \E h \in Headers : GetCategories(h)
    \/ \E h \in Headers, name \in NameInputs : PostCategories(h, name)
    \/ \E h \in Headers, name \in NameInputs : DeleteCategories(h, name)
    \/ Tick

SpecCategories == InitRegistered /\ [][NextCategories]_vars

\* C7: no (name, user_id) pair is ever stored twice; POST /categories by a
\* verified user answers 400 and changes nothing when the name is absent or
\* empty, 409 and changes nothing when the caller already owns the name, and
\* otherwise (the name is owned by nobody or only by others) 201, adding
\* exactly one row (name, caller).
C7_CategoryCreate ==
    [][/\ \A p \in StorableNames \X UserIds : categories'[p] <= 1
       /\ \A h \in Headers, name \in NameInputs :
            (PostCategories(h, name) /\ authMiddleware(h).next)
            => LET u == authMiddleware(h).userId
               IN  IF name = NullStr \/ name = ""
                   THEN resp'.status = 400 /\ categories' = categories
                   ELSE IF categories[<<name, u>>] >= 1
                   THEN resp'.status = 409 /\ categories' = categories
                   ELSE /\ resp'.status = 201
                        /\ resp'.body = [name |-> name]
                        /\ categories' =
                             [categories EXCEPT ![<<name, u>>] = 1]]_vars

\* C7 happens: a user has created a category under a name that another
\* user owns, and both rows are stored.
C7_Witness ==
    /\ resp.route = "POST /categories"
    /\ resp.status = 201
    /\ categories[<<resp.params.name, resp.userId>>] = 1
    /\ \E v \in UserIds \ {resp.userId} :
            categories[<<resp.params.name, v>>] = 1

\* C8: DELETE /categories of a name by a verified user answers 200 and
\* removes the caller's row of that name, and no other row, when the caller
\* owns the name; it answers 404 and changes nothing when the caller does
\* not (also when other users do); and a (name, user) row that is gone comes
\* back only by that user's successful POST /categories of that name, so a
\* repeated delete keeps answering 404 until then.
C8_CategoryDelete ==
    [][/\ \A h \in Headers, name \in CategoryNames :
            (DeleteCategories(h, name) /\ authMiddleware(h).next)
            => LET u == authMiddleware(h).userId
               IN  IF categories[<<name, u>>] >= 1
                   THEN /\ resp'.status = 200
                        /\ categories' =
                             [categories EXCEPT ![<<name, u>>] = 0]
                   ELSE resp'.status = 404 /\ categories' = categories
       /\ \A p \in StorableNames \X UserIds :
            (categories[p] = 0 /\ categories'[p] > 0)
            => /\ resp'.route = "POST /categories"
               /\ resp'.status = 201
               /\ resp'.params.name = p[1]
               /\ resp'.userId = p[2]]_vars

\* C8 happens: a delete by a user who does not (or no longer) own the name
\* was answered 404 while another user's row of that name is still stored.
C8_Witness ==
    /\ resp.route = "DELETE /categories"
    /\ resp.status = 404
    /\ resp.userId \in UserIds
    /\ resp.params.name \in CategoryNames
    /\ categories[<<resp.params.name, resp.userId>>] = 0
    /\ \E v \in UserIds \ {resp.userId} :
            categories[<<resp.params.name, v>>] = 1

-----------------------------------------------------------------------------
(* The expense write routes *)

NextExpenses ==
    \/ \E h \in Headers, created_at \in {March1, NullInt} :
            PostExpenses(h, 10, "bus", "food", created_at)
    \/ \E h \in Headers, id \in ExpenseIds, created_at \in {April1, NullInt} :
            PutExpense(h, id, 25, NullStr, "transport", created_at)
    \/ \E h \in Headers, id \in ExpenseIds : DeleteExpense(h, id)

SpecExpenses == InitRegistered /\ [][NextExpenses]_vars

\* C1: PUT and DELETE /expenses/:id by a verified user on the id of an
\* expense that another user owns are answered 404, and the expense is still
\* stored afterwards with the same amount, description, category, created_at
\* and user_id.
C1_ForeignExpenseUntouched ==
    [][\A e \in expenses :
          /\ (/\ resp'.route = "DELETE /expenses/:id"
              /\ DeleteExpense(resp'.header, e.id)
              /\ authMiddleware(resp'.header).next
              /\ authMiddleware(resp'.header).userId # e.user_id)
             => resp'.status = 404 /\ e \in expenses'
          /\ (/\ resp'.route = "PUT /expenses/:id"
              /\ PutExpense(resp'.header, e.id, resp'.params.amount,
                            resp'.params.description, resp'.params.category,
                            resp'.params.created_at)
              /\ authMiddleware(resp'.header).next
              /\ authMiddleware(resp'.header).userId # e.user_id)
             => resp'.status = 404 /\ e \in expenses']_vars

\* C1 happens: a user's update of another user's stored expense was
\* answered 404.
C1_Witness ==
    /\ resp.route = "PUT /expenses/:id"
    /\ resp.status = 404
    /\ resp.userId \in UserIds
    /\ \E e \in expenses : e.id = resp.params.id /\ e.user_id # resp.userId

\* C6: POST /expenses by a verified user answers 201 with the stored row,
\* owned by the caller and carrying a generated id; its created_at is the
\* current time when the request has none, and the supplied value otherwise.
C6_CreatedAtDefaultsToNow ==
    (resp.route = "POST /expenses" /\ resp.userId \in UserIds)
    => /\ resp.status = 201
       /\ resp.body \in expenses
       /\ resp.body.user_id = resp.userId
       /\ resp.body.id \in 1..MaxExpenses
       /\ IF resp.params.created_at = NullInt
          THEN resp.body.created_at = resp.at
          ELSE resp.body.created_at = resp.params.created_at

-----------------------------------------------------------------------------
(* Listing expenses by month *)

NextList ==
    \/ \E h \in Headers,
          created_at \in {March1, March31Night, April1, March2025, NullInt} :
            PostExpenses(h, 10, "bus", "food", created_at)
    \/ \E h \in Headers, month \in {3, NullInt}, year \in {2024, NullInt} :
            GetExpenses(h, month, year)

SpecList == InitRegistered /\ [][NextList]_vars

\* the elements of a sequence
Range(seq) == {seq[i] : i \in 1..Len(seq)}

\* C5: GET /expenses by a verified user answers 200 in every case; with
\* month and year both given the rows are exactly the caller's expenses
\* created in that month of that year, with only one of them or neither the
\* rows are all of the caller's expenses; the rows come latest first.
C5_ListByMonth ==
    (resp.route = "GET /expenses" /\ resp.userId \in UserIds)
    => LET own == {e \in expenses : e.user_id = resp.userId}
           month == resp.params.month
           year == resp.params.year
           first == MakeTimestamp(year, month, 1, 0, 0, 0)
           last == MakeTimestamp(year, month, DaysInMonth(year, month), 23, 59, 59)
           wanted == IF month # NullInt /\ year # NullInt
                     THEN {e \in own : /\ e.created_at # NullInt
                                        /\ first <= e.created_at
                                        /\ e.created_at <= last}
                     ELSE own
       IN  /\ resp.status = 200
           /\ Range(resp.body) = wanted
           /\ Len(resp.body) = Cardinality(wanted)
           /\ \A i, j \in 1..Len(resp.body) :
                (/\ i < j
                 /\ resp.body[i].created_at # NullInt
                 /\ resp.body[j].created_at # NullInt)
                => resp.body[i].created_at >= resp.body[j].created_at

-----------------------------------------------------------------------------
(* The range family *)

NextRanges ==
    \/ \E h \in Headers, amount \in Amounts,
          created_at \in {March31Morning, March31Night, April1} :
            PostExpenses(h, amount, "bus",
                         IF amount = 10 THEN "food" ELSE "transport", created_at)
    \/ \E h \in Headers, startDate \in {MakeDate(2024, 3, 31)},
          endDate \in {MakeDate(2024, 3, 31), MakeDate(2024, 4, 1), NullInt} :
            ExpensesRange(h, startDate, endDate)
    \/ \E h \in Headers, startDate \in {MakeDate(2024, 3, 31)},
          endDate \in {MakeDate(2024, 3, 31), MakeDate(2024, 4, 1)} :
            RangeCategorySummary(h, startDate, endDate)
    \/ \E h \in Headers, startDate \in {MakeDate(2024, 3, 31)},
          endDate \in {MakeDate(2024, 3, 31), MakeDate(2024, 4, 1)} :
            RangeDailySummary(h, startDate, endDate)

SpecRanges == InitReads /\ [][NextRanges]_vars

\* C9: with startDate and endDate given, the three range routes answer from
\* exactly the caller's expenses whose created_at falls on a calendar day d
\* with startDate <= d <= endDate, at whatever time of that day:
\* /expenses/range returns those rows, range-category-summary their sums
\* per category, and range-daily-summary one row per distinct day with the
\* sum of that day's amounts, days ascending.
C9_RangeByCalendarDay ==
    (/\ resp.route \in {"GET /expenses/range",
                        "GET /reports/range-category-summary",
                        "GET /reports/range-daily-summary"}
     /\ resp.userId \in UserIds
     /\ resp.params.startDate # NullInt
     /\ resp.params.endDate # NullInt)
    => LET day(e) == e.created_at \div 86400
           selected == {e \in expenses :
                          /\ e.user_id = resp.userId
                          /\ e.created_at # NullInt
                          /\ resp.params.startDate <= day(e)
                          /\ day(e) <= resp.params.endDate}
           total(S) == SumAmount(S)
       IN  /\ resp.status = 200
           /\ resp.route = "GET /expenses/range"
              => /\ {r.id : r \in Range(resp.body)} = {e.id : e \in selected}
                 /\ Len(resp.body) = Cardinality(selected)
                 /\ \A r \in Range(resp.body) : \E e \in selected :
                        /\ e.id = r.id /\ e.amount = r.amount
                        /\ e.category = r.category
                        /\ e.created_at = r.created_at
           /\ resp.route = "GET /reports/range-category-summary"
              => /\ {r.category : r \in Range(resp.body)}
                        = {e.category : e \in selected}
                 /\ Len(resp.body) = Cardinality({e.category : e \in selected})
                 /\ \A r \in Range(resp.body) :
                        r.total_amount =
                            total({e \in selected : e.category = r.category})
           /\ resp.route = "GET /reports/range-daily-summary"
              => /\ {r.day : r \in Range(resp.body)} = {day(e) : e \in selected}
                 /\ Len(resp.body) = Cardinality({day(e) : e \in selected})
                 /\ \A r \in Range(resp.body) :
                        r.total_amount = total({e \in selected : day(e) = r.day})
                 /\ \A i, j \in 1..Len(resp.body) :
                        i < j => resp.body[i].day < resp.body[j].day

\* C9 happens: range-daily-summary has summed, under the end date, two of
\* the caller's expenses of that day, one of them made at 23:59:59.
C9_Witness ==
    /\ resp.route = "GET /reports/range-daily-summary"
    /\ resp.status = 200
    /\ resp.params.endDate = MakeDate(2024, 3, 31)
    /\ \E e1, e2 \in expenses :
          /\ e1.user_id = resp.userId /\ e2.user_id = resp.userId
          /\ e1.created_at = March31Night /\ e2.created_at = March31Morning
          /\ resp.body = <<[day |-> MakeDate(2024, 3, 31),
                            total_amount |-> e1.amount + e2.amount]>>

-----------------------------------------------------------------------------
(* Every read route *)

\* what a read route answers from a given expenses table
ReadOutcomes(route, rows, userId, q) ==
    CASE route = "GET /expenses" ->
            GetExpensesOutcomes(rows, userId, q.month, q.year)
      [] route = "GET /reports/category-summary" ->
            CategorySummaryOutcomes(rows, userId, q.month, q.year)
      [] route = "GET /reports/monthly-summary" ->
            MonthlySummaryOutcomes(rows, userId, q.month, q.year)
      [] route = "GET /reports/weekly-category-summary" ->
            WeeklyCategorySummaryOutcomes(rows, userId, q.startDate, q.endDate)
      [] route = "GET /reports/yearly-category-summary" ->
            YearlyCategorySummaryOutcomes(rows, userId, q.year)
      [] route = "GET /reports/yearly-summary" ->
            YearlySummaryOutcomes(rows, userId, q.year)
      [] route = "GET /reports/weekly-summary" ->
            WeeklySummaryOutcomes(rows, userId, q.startDate, q.endDate)
      [] route = "GET /expenses/range" ->
            ExpensesRangeOutcomes(rows, userId, q.startDate, q.endDate)
      [] route = "GET /reports/range-category-summary" ->
            RangeCategorySummaryOutcomes(rows, userId, q.startDate, q.endDate)
      [] route = "GET /reports/range-daily-summary" ->
            RangeDailySummaryOutcomes(rows, userId, q.startDate, q.endDate)

MonthRoutes ==
    {"GET /expenses", "GET /reports/category-summary",
     "GET /reports/monthly-summary"}

YearRoutes ==
    {"GET /reports/yearly-category-summary", "GET /reports/yearly-summary"}

DateRoutes ==
    {"GET /reports/weekly-category-summary", "GET /reports/weekly-summary",
     "GET /expenses/range", "GET /reports/range-category-summary",
     "GET /reports/range-daily-summary"}

NextReads ==
    \/ \E h \in Headers, amount \in Amounts :
            PostExpenses(h, amount, "bus",
                         IF amount = 10 THEN "food" ELSE "transport",
                         IF amount = 10 THEN March31Night ELSE April1)
    \/ \E h \in Headers : PostCategories(h, "food")
    \/ \E h \in Headers : GetCategories(h)
    \/ \E h \in Headers, month \in {3, NullInt} : GetExpenses(h, month, 2024)
    \/ \E h \in Headers : CategorySummary(h, 3, 2024)
    \/ \E h \in Headers : MonthlySummary(h, 3, 2024)
    \/ \E h \in Headers : YearlyCategorySummary(h, 2024)
    \/ \E h \in Headers : YearlySummary(h, 2024)
    \/ \E h \in Headers :
            WeeklyCategorySummary(h, MakeDate(2024, 3, 31), MakeDate(2024, 4, 1))
    \/ \E h \in Headers :
            WeeklySummary(h, MakeDate(2024, 3, 31), MakeDate(2024, 4, 1))
    \/ \E h \in Headers, endDate \in {MakeDate(2024, 3, 31), MakeDate(2024, 4, 1)} :
            ExpensesRange(h, MakeDate(2024, 3, 31), endDate)
    \/ \E h \in Headers :
            RangeCategorySummary(h, MakeDate(2024, 3, 31), MakeDate(2024, 3, 31))
    \/ \E h \in Headers :
            RangeDailySummary(h, MakeDate(2024, 3, 31), MakeDate(2024, 4, 1))

SpecReads == InitReads /\ [][NextReads]_vars

\* the query strings the comparison of stores is made for
SampleQueries ==
    [route : MonthRoutes, month : {3, NullInt}, year : {2024, NullInt}]
    \cup [route : YearRoutes, year : {2024, NullInt}]
    \cup [route : DateRoutes, startDate : {MakeDate(2024, 3, 31)},
          endDate : {MakeDate(2024, 3, 31), MakeDate(2024, 4, 1)}]

\* rows that users other than u could own instead of those stored
OtherUsersRows(u) ==
    {{},
     {[id |-> 90 + v, amount |-> 25, description |-> "rent",
       category |-> "food", created_at |-> March31Night, user_id |-> v] :
          v \in UserIds \ {u}}}

\* C4: what a read route answers to verified user u is decided by the rows
\* whose user_id is u alone.  For every u and query, the answers the route
\* allows from the stored table are those it allows from a table that keeps
\* u's rows and holds no, or different, rows of other users; the same for
\* the category list; and every answer actually sent is one the route
\* allows from the caller's rows alone.
C4_ReadsSeeOnlyOwnRows ==
    /\ \A u \in UserIds, q \in SampleQueries : \A other \in OtherUsersRows(u) :
          ReadOutcomes(q.route, expenses, u, q)
            = ReadOutcomes(q.route,
                           {e \in expenses : e.user_id = u} \cup other, u, q)
    /\ \A u \in UserIds, n \in StorableNames : \A v \in UserIds \ {u} :
          NamesFrom(categories, u, 1)
            = NamesFrom([categories EXCEPT ![<<n, v>>] = 1 - @], u, 1)
    /\ (resp.route \in MonthRoutes \cup YearRoutes \cup DateRoutes
            /\ resp.userId \in UserIds)
        => [status |-> resp.status, body |-> resp.body]
              \in ReadOutcomes(resp.route,
                               {e \in expenses : e.user_id = resp.userId},
                               resp.userId, resp.params)
    /\ (resp.route = "GET /categories" /\ resp.userId \in UserIds)
        => /\ resp.status = 200
           /\ Range(resp.body)
                = {n \in StorableNames : categories[<<n, resp.userId>>] > 0}

\* C4 happens: a user with an expense of their own was sent a listing while
\* another user's expense of the same day is stored, and the listing holds
\* the caller's row only.
C4_Witness ==
    /\ resp.route = "GET /expenses/range"
    /\ resp.status = 200
    /\ Len(resp.body) = 1
    /\ \E e1, e2 \in expenses :
          /\ e1.user_id = resp.userId /\ e2.user_id # resp.userId
          /\ e1.created_at = e2.created_at
          /\ resp.body[1].id = e1.id

-----------------------------------------------------------------------------
(* The first server version: the same routes registered without            *)
(* authMiddleware, the expenses table without an owner                     *)

\* app.get("/")
LegacyRoot(h) ==
    /\ Respond("GET /", h, <<>>, 0, 200, "Hello from the backend!")
    /\ UNCHANGED <<users, expenses, categories, nextExpenseId,
                   createdAtNotNull, now, tokens>>

\* app.post("/expenses"): created_at and user_id are not in the column
\* list, so created_at takes the column default
LegacyPostExpenses(h, amount, description, category) ==
    LET params == [amount |-> amount, description |-> description,
                   category |-> category]
        row == [id |-> nextExpenseId, amount |-> amount,
                description |-> description, category |-> category,
                created_at |-> now, user_id |-> NullInt]
    IN  /\ nextExpenseId <= MaxExpenses
        /\ expenses' = expenses \cup {row}
        /\ nextExpenseId' = nextExpenseId + 1
        /\ Respond("POST /expenses", h, params, 0, 201, row)
        /\ UNCHANGED <<users, categories, createdAtNotNull, now, tokens>>

\* app.get("/expenses")
LegacyGetExpenses(h) ==
    /\ \E rows \in Orderings(expenses, CreatedAtDesc) :
            Respond("GET /expenses", h, <<>>, 0, 200, rows)
    /\ UNCHANGED <<users, expenses, categories, nextExpenseId,
                   createdAtNotNull, now, tokens>>

\* app.get("/reports/category-summary")
LegacyCategorySummary(h) ==
    /\ \E rows \in Orderings(GroupByCategory(expenses), TotalDesc) :
            Respond("GET /reports/category-summary", h, <<>>, 0, 200, rows)
    /\ UNCHANGED <<users, expenses, categories, nextExpenseId,
                   createdAtNotNull, now, tokens>>

\* app.delete("/expenses/:id")
LegacyDeleteExpense(h, id) ==
    LET matched == {e \in expenses : e.id = id}
    IN  IF matched = {}
        THEN /\ Respond("DELETE /expenses/:id", h, [id |-> id], 0, 404,
                        [error |-> "Expense not found"])
             /\ UNCHANGED <<users, expenses, categories, nextExpenseId,
                            createdAtNotNull, now, tokens>>
        ELSE /\ expenses' = expenses \ matched
             /\ Respond("DELETE /expenses/:id", h, [id |-> id], 0, 200,
                        [message |-> "Expense deleted successfully"])
             /\ UNCHANGED <<users, categories, nextExpenseId, createdAtNotNull,
                            now, tokens>>

NextLegacy ==
    \/ \E h \in Headers : LegacyRoot(h)
    \/ \E h \in Headers, amount \in Amounts, description \in Descriptions,
          category \in CategoryNames :
            LegacyPostExpenses(h, amount, description, category)
    \/ \E h \in Headers : LegacyGetExpenses(h)
    \/ \E h \in Headers : LegacyCategorySummary(h)
    \/ \E h \in Headers, id \in ExpenseIds : LegacyDeleteExpense(h, id)
    \/ Tick

SpecLegacy == InitRegistered /\ [][NextLegacy]_vars

\* C2: a request to an expense, category or report route whose
\* Authorization header is absent, is not signed by the server or has
\* expired is answered 401, and the store is as it was before the request.
C2_EveryRouteGuarded ==
    [][(/\ resp' # resp
        /\ resp'.route \in GuardedRoutes
        /\ ~(resp'.header.sig = "valid" /\ resp'.at < resp'.header.exp))
       => /\ resp'.status = 401
          /\ users' = users
          /\ expenses' = expenses
          /\ categories' = categories]_vars

-----------------------------------------------------------------------------
(* The weekly family *)

NextWeekly ==
    \/ \E h \in Headers, amount \in Amounts,
          created_at \in {March31Morning, March31Night, April1} :
            PostExpenses(h, amount, "bus",
                         IF amount = 10 THEN "food" ELSE "transport", created_at)
    \/ \E h \in Headers,
          endDate \in {MakeDate(2024, 3, 31), MakeDate(2024, 4, 1), NullInt} :
            WeeklySummary(h, MakeDate(2024, 3, 31), endDate)
    \/ \E h \in Headers,
          endDate \in {MakeDate(2024, 3, 31), MakeDate(2024, 4, 1)} :
            WeeklyCategorySummary(h, MakeDate(2024, 3, 31), endDate)

SpecWeekly == InitReads /\ [][NextWeekly]_vars

\* C11: with startDate and endDate given, weekly-summary and
\* weekly-category-summary answer 200 and count every expense of the caller
\* whose created_at falls on a calendar day d with startDate <= d <= endDate,
\* at whatever time of that day: weekly-summary has, for each such day, a row
\* whose total is the sum of the caller's amounts of that day, and
\* weekly-category-summary has, for each category of such an expense, a row
\* whose total is the sum of the caller's amounts of that category in the
\* window.
C11_WeeklyWindowInclusive ==
    (/\ resp.route \in {"GET /reports/weekly-summary",
                        "GET /reports/weekly-category-summary"}
     /\ resp.userId \in UserIds
     /\ resp.params.startDate # NullInt
     /\ resp.params.endDate # NullInt)
    => LET day(e) == e.created_at \div 86400
           selected == {e \in expenses :
                          /\ e.user_id = resp.userId
                          /\ e.created_at # NullInt
                          /\ resp.params.startDate <= day(e)
                          /\ day(e) <= resp.params.endDate}
       IN  /\ resp.status = 200
           /\ resp.route = "GET /reports/weekly-summary"
              => \A e \in selected : \E r \in Range(resp.body) :
                    /\ r.day = day(e)
                    /\ r.total_amount
                         = SumAmount({x \in selected : day(x) = day(e)})
           /\ resp.route = "GET /reports/weekly-category-summary"
              => \A e \in selected : \E r \in Range(resp.body) :
                    /\ r.category = e.category
                    /\ r.total_amount
                         = SumAmount({x \in selected : x.category = e.category})

-----------------------------------------------------------------------------
(* Updating an expense *)

\* C12: a PUT /expenses/:id answered 200 leaves the expenses table as it was
\* except for the one row with that id, which its owner sent the request
\* for: that row keeps its id and user_id and has the amount, description,
\* category and created_at of the request body, NULL for a field the body
\* lacks; users and categories are unchanged.  A PUT answered 404 changes no
\* expense, category or user.
C12_UpdateReplacesFourFields ==
    [][(/\ resp'.route = "PUT /expenses/:id"
        /\ PutExpense(resp'.header, resp'.params.id, resp'.params.amount,
                      resp'.params.description, resp'.params.category,
                      resp'.params.created_at))
       => LET body == resp'.params
              target == {e \in expenses : e.id = body.id}
          IN  /\ resp'.status = 200
                 => /\ Cardinality(target) = 1
                    /\ \A e \in target :
                          /\ e.user_id = resp'.userId
                          /\ expenses' = (expenses \ {e}) \cup
                                {[id |-> e.id, user_id |-> e.user_id,
                                  amount |-> body.amount,
                                  description |-> body.description,
                                  category |-> body.category,
                                  created_at |-> body.created_at]}
                    /\ users' = users
                    /\ categories' = categories
              /\ resp'.status = 404
                 => /\ expenses' = expenses
                    /\ users' = users
                    /\ categories' = categories]_vars

\* C12 happens: an owner's update without description and created_at was
\* answered 200, the row now holds NULL in both, and another stored expense
\* still has its description.
C12_Witness ==
    /\ resp.route = "PUT /expenses/:id"
    /\ resp.status = 200
    /\ resp.params.description = NullStr
    /\ resp.params.created_at = NullInt
    /\ \E e, other \in expenses :
          /\ e.id = resp.params.id /\ e.user_id = resp.userId
          /\ e.description = NullStr /\ e.created_at = NullInt
          /\ e.amount = resp.params.amount
          /\ other.id # e.id /\ other.description = "bus"

-----------------------------------------------------------------------------
(* Requests in flight: the handlers of POST /api/register and              *)
(* POST /categories step by step, each await a step of its own             *)

\* the request the server takes next
NextRequestId ==
    IF \E rid \in 1..MaxRequests : requests[rid].pc = "idle"
    THEN CHOOSE rid \in 1..MaxRequests :
            /\ requests[rid].pc = "idle"
            /\ \A other \in 1..rid - 1 : requests[other].pc # "idle"
    ELSE 0

\* the connection is accepted and the request reaches its handler
Accepting == serverListening /\ ~processExited /\ NextRequestId # 0

\* res.status(status).json(body) of a request in flight
Send(rid, queried, status, body) ==
    /\ requests' = [requests EXCEPT ![rid].pc = "done",
                                    ![rid].queried = queried,
                                    ![rid].status = status]
    /\ resp' = [route |-> requests[rid].route, header |-> requests[rid].header,
                params |-> requests[rid].params, at |-> now,
                userId |-> requests[rid].userId, status |-> status,
                body |-> body]

\* pool.query on a pool whose end() has been called rejects
PoolQueryError == IF poolState = "open" THEN "" ELSE "pool ended"

\* POST /api/register is received: the handler awaits bcrypt
ReceiveRegister(username, email, password) ==
    /\ Accepting
    /\ requests' = [requests EXCEPT ![NextRequestId] =
            [route |-> "POST /api/register", header |-> NoHeader,
             params |-> [username |-> username, email |-> email,
                         password |-> password],
             userId |-> 0, pc |-> "hashing", queried |-> FALSE, status |-> 0]]
    /\ UNCHANGED <<users, expenses, categories, nextExpenseId,
                   createdAtNotNull, now, tokens, resp,
                   serverListening, poolState, processExited>>

\* bcrypt.hash resolves and the handler calls pool.query
RegisterHashed(rid) ==
    /\ ~processExited
    /\ requests[rid].route = "POST /api/register"
    /\ requests[rid].pc = "hashing"
    /\ IF PoolQueryError # ""
       THEN Send(rid, FALSE, RegisterErrorStatus(PoolQueryError),
                 [error |-> RegisterErrorMessage(PoolQueryError)])
       ELSE /\ requests' = [requests EXCEPT ![rid].pc = "querying"]
            /\ UNCHANGED resp
    /\ UNCHANGED <<users, expenses, categories, nextExpenseId,
                   createdAtNotNull, now, tokens,
                   serverListening, poolState, processExited>>

\* a handler that takes a refused insert for a stored one
RegisterInsert_ConflictIgnored(rid) ==
    LET body == requests[rid].params
        newUser == [id |-> Cardinality(users) + 1, username |-> body.username,
                    email |-> body.email]
        token == jwtSign(newUser.id, now)
    IN  /\ ~processExited
        /\ requests[rid].route = "POST /api/register"
        /\ requests[rid].pc = "querying"
        /\ Cardinality(users) < MaxUsers
        /\ users' = IF UsersInsertError(body.username, body.email) # ""
                    THEN users
                    ELSE users \cup
                           {[id |-> newUser.id, username |-> body.username,
                             email |-> body.email,
                             password_hash |-> bcryptHash(body.password)]}
        /\ tokens' = Keep(token)
        /\ Send(rid, TRUE, 201, [token |-> token, user |-> newUser])
        /\ UNCHANGED <<expenses, categories, nextExpenseId, createdAtNotNull,
                       now, serverListening, poolState, processExited>>

\* the INSERT INTO users runs in the store and the handler answers
RegisterInsert(rid) ==
    LET body == requests[rid].params
        code == UsersInsertError(body.username, body.email)
        newUser == [id |-> Cardinality(users) + 1, username |-> body.username,
                    email |-> body.email]
        token == jwtSign(newUser.id, now)
    IN  /\ ~processExited
        /\ requests[rid].route = "POST /api/register"
        /\ requests[rid].pc = "querying"
        /\ IF code # ""
           THEN /\ Send(rid, TRUE, RegisterErrorStatus(code),
                        [error |-> RegisterErrorMessage(code)])
                /\ UNCHANGED <<users, tokens>>
           ELSE /\ Cardinality(users) < MaxUsers
                /\ users' = users \cup
                       {[id |-> newUser.id, username |-> body.username,
                         email |-> body.email,
                         password_hash |-> bcryptHash(body.password)]}
                /\ tokens' = Keep(token)
                /\ Send(rid, TRUE, 201, [token |-> token, user |-> newUser])
        /\ UNCHANGED <<expenses, categories, nextExpenseId, createdAtNotNull,
                       now, serverListening, poolState, processExited>>

\* POST /categories is received: authMiddleware and the name test run at
\* once, then the handler calls pool.query
ReceiveCategory(h, name) ==
    LET auth == authMiddleware(h)
        rid == NextRequestId
        received == [route |-> "POST /categories", header |-> h,
                     params |-> [name |-> name], userId |-> auth.userId,
                     pc |-> "querying", queried |-> FALSE, status |-> 0]
        answered(status) == [received EXCEPT !.pc = "done", !.status = status]
        sent(status, body) ==
            /\ requests' = [requests EXCEPT ![rid] = answered(status)]
            /\ resp' = [route |-> "POST /categories", header |-> h,
                        params |-> [name |-> name], at |-> now,
                        userId |-> auth.userId, status |-> status,
                        body |-> body]
    IN  /\ Accepting
        /\ IF ~auth.next
           THEN sent(auth.status, [error |-> auth.error])
           ELSE IF NameMissing(name)
           THEN sent(400, [error |-> "Category name is required"])
           ELSE IF PoolQueryError # ""
           THEN sent(PostCategoriesErrorStatus(PoolQueryError),
                     [error |-> PostCategoriesErrorMessage(PoolQueryError)])
           ELSE /\ requests' = [requests EXCEPT ![rid] = received]
                /\ UNCHANGED resp
        /\ UNCHANGED <<users, expenses, categories, nextExpenseId,
                       createdAtNotNull, now, tokens,
                       serverListening, poolState, processExited>>

\* the INSERT INTO categories runs in the store and the handler answers
CategoryInsert(rid) ==
    LET name == requests[rid].params.name
        userId == requests[rid].userId
        code == CategoriesInsertError(name, userId)
    IN  /\ ~processExited
        /\ requests[rid].route = "POST /categories"
        /\ requests[rid].pc = "querying"
        /\ IF code # ""
           THEN /\ Send(rid, TRUE, PostCategoriesErrorStatus(code),
                        [error |-> PostCategoriesErrorMessage(code)])
                /\ UNCHANGED categories
           ELSE /\ categories' = [categories EXCEPT ![<<name, userId>>] = @ + 1]
                /\ Send(rid, TRUE, 201, [name |-> name])
        /\ UNCHANGED <<users, expenses, nextExpenseId, createdAtNotNull, now,
                       tokens, serverListening, poolState, processExited>>

\* the username and email of the Register requests: the first two share
\* the username, the last two the email
Accounts ==
    {<<"alice", "a@x.com">>, <<"alice", "b@x.com">>, <<"bob", "b@x.com">>}

NextConcurrent ==
    \/ \E account \in Accounts :
            ReceiveRegister(account[1], account[2], "pw123")
    \/ \E rid \in 1..MaxRequests : RegisterHashed(rid)
    \/ \E rid \in 1..MaxRequests : RegisterInsert(rid)
    \/ \E h \in {NoHeader} \cup tokens : ReceiveCategory(h, "food")
    \/ \E rid \in 1..MaxRequests : CategoryInsert(rid)

\* the server is up, nobody has registered, created_at is nullable
InitServing == Init /\ ~createdAtNotNull

SpecConcurrent == InitServing /\ [][NextConcurrent]_vars

\* the requests of a route that have been answered
Answered(route) ==
    {rid \in 1..MaxRequests :
        requests[rid].route = route /\ requests[rid].pc = "done"}

\* two Register requests that name the same username or the same email
SameAccount(r1, r2) ==
    \/ requests[r1].params.username = requests[r2].params.username
    \/ requests[r1].params.email = requests[r2].params.email

\* two Category Create requests of one verified user with the same name
SameCategory(r1, r2) ==
    /\ requests[r1].userId \in UserIds
    /\ requests[r1].userId = requests[r2].userId
    /\ requests[r1].params.name # NullStr
    /\ requests[r1].params.name = requests[r2].params.name

\* C13: however the steps of concurrent requests interleave, no two users
\* share a username or an email and no two categories share (name, user_id);
\* of the answered Register requests that share a username or an email at
\* most one was answered 201, every other one was answered 400 by its own
\* insert (no check before it) and one that was answered 201 exists; the
\* same for answered Category Create requests of one user with one name,
\* with 409 as the conflict answer.
C13_UniquenessUnderInterleaving ==
    /\ \A u1, u2 \in users :
          u1 # u2 => u1.username # u2.username /\ u1.email # u2.email
    /\ \A p \in DOMAIN categories : categories[p] <= 1
    /\ \A r1 \in Answered("POST /api/register") :
          /\ requests[r1].queried
          /\ requests[r1].status \in {201, 400}
          /\ requests[r1].status = 201
             => \A r2 \in Answered("POST /api/register") \ {r1} :
                    SameAccount(r1, r2) => requests[r2].status = 400
          /\ requests[r1].status = 400
             => \E r2 \in Answered("POST /api/register") \ {r1} :
                    SameAccount(r1, r2) /\ requests[r2].status = 201
    /\ \A r1 \in Answered("POST /categories") :
          (requests[r1].userId \in UserIds /\ requests[r1].params.name # NullStr)
          => /\ requests[r1].queried
             /\ requests[r1].status \in {201, 409}
             /\ requests[r1].status = 201
                => \A r2 \in Answered("POST /categories") \ {r1} :
                       SameCategory(r1, r2) => requests[r2].status = 409
             /\ requests[r1].status = 409
                => \E r2 \in Answered("POST /categories") \ {r1} :
                       SameCategory(r1, r2) /\ requests[r2].status = 201

\* C13 happens: a Register request was answered 400 because a request for
\* the same username that the server received after it inserted first, and
\* likewise a Category Create request was answered 409.
C13_Witness ==
    /\ \E r1, r2 \in Answered("POST /api/register") :
          /\ r1 < r2
          /\ requests[r1].params.username = requests[r2].params.username
          /\ requests[r1].params.email # requests[r2].params.email
          /\ requests[r1].status = 400 /\ requests[r2].status = 201
    /\ \E r1, r2 \in Answered("POST /categories") :
          /\ r1 < r2
          /\ SameCategory(r1, r2)
          /\ requests[r1].status = 409 /\ requests[r2].status = 201

-----------------------------------------------------------------------------
(* Shutdown *)

\* process.on("SIGINT" / "SIGTERM"): gracefulShutdown runs up to its await,
\* server.close() and then pool.end() are called; the first signal only
Signal ==
    /\ ~processExited
    /\ poolState = "open"
    /\ serverListening' = FALSE
    /\ poolState' = "ending"
    /\ UNCHANGED <<users, expenses, categories, nextExpenseId,
                   createdAtNotNull, now, tokens, resp, requests,
                   processExited>>

\* pool.end() resolves once no query holds a client, and gracefulShutdown
\* goes on to process.exit(0): a handler still waiting for bcrypt never
\* answers
PoolEnded ==
    /\ ~processExited
    /\ poolState = "ending"
    /\ \A rid \in 1..MaxRequests : requests[rid].pc # "querying"
    /\ poolState' = "ended"
    /\ processExited' = TRUE
    /\ requests' = [rid \in 1..MaxRequests |->
            IF requests[rid].pc \in {"idle", "done"} THEN requests[rid]
            ELSE [requests[rid] EXCEPT !.pc = "cut"]]
    /\ UNCHANGED <<users, expenses, categories, nextExpenseId,
                   createdAtNotNull, now, tokens, resp, serverListening>>

NextShutdown ==
    \/ NextConcurrent
    \/ Signal
    \/ PoolEnded

SpecShutdown == InitServing /\ [][NextShutdown]_vars

\* C14: once the signal has come the server takes no new request; a request
\* that was in flight is never cut off and never refused its query, it is
\* answered after its query has run; and the pool is released and the
\* process exits only when every request received has been answered.
C14_ShutdownDrains ==
    [][\A rid \in 1..MaxRequests :
          /\ (~serverListening /\ requests[rid].pc = "idle")
             => requests'[rid].pc = "idle"
          /\ requests'[rid].pc # "cut"
          /\ (requests[rid].pc \in {"hashing", "querying"}
                /\ requests'[rid].pc = "done")
             => requests'[rid].queried
          /\ (poolState' = "ended" \/ processExited')
             => requests[rid].pc \in {"idle", "done"}]_vars

====
